---- MODULE Spec2Model ----
(***************************************************************************)
(* A model of the olmreader import pipeline.                               *)
(*                                                                         *)
(*   src/import.py       Batch: buffers items and hands them to a          *)
(*                       SQLAlchemy session in batches of batch_size.      *)
(*   src/lib/message.py  Address.fromdict (with its dedup cache) and       *)
(*                       Email.fromdict (decoded record -> Email entity).  *)
(*                                                                         *)
(* Three specifications share the module's variables:                      *)
(*   Spec        the Batch object driven by add and close calls            *)
(*   SpecAddress Address.fromdict calls across import sessions             *)
(*   SpecEmail   Email.fromdict applied to one decoded record              *)
(***************************************************************************)
EXTENDS Integers, Sequences, FiniteSets, TLC

VARIABLES
    \* ---- src/import.py, class Batch
    batch_size,   \* self._batch_size
    dry,          \* self._dry
    batch,        \* self._batch
    total,        \* self._total
    session,      \* self._session: the SQLAlchemy session (the sink)
    log,          \* the lines written by logging.info in _apply
    \* history of the calls made on the Batch (not program state)
    ops,          \* the calls made so far, "add" or "close", in order
    added,        \* the items passed to add, in order
    flushAt,      \* for each _apply call: the call (index in ops) that ran it
    \* ---- src/lib/message.py, Address.fromdict
    cache,        \* the default-argument dict of Address.fromdict
    nalloc,       \* number of Address objects constructed so far
    run,          \* number of the current import session
    startAlloc,   \* nalloc when the current import session began
    returned,     \* per natural key: the objects returned in this session
    lastCall,     \* the last Address.fromdict call: its key and its result
    \* ---- src/lib/message.py, Email.fromdict
    path,         \* argument path, as a sequence of tokens
    msg,          \* argument msg: the decoded record
    outcome       \* what the call produced: an Email or the error raised

batchVars == <<batch_size, dry, batch, total, session, log, ops, added, flushAt>>
addrVars  == <<cache, nalloc, run, startAlloc, returned, lastCall>>
emailVars == <<path, msg, outcome>>
vars      == <<batchVars, addrVars, emailVars>>

(***************************************************************************)
(* Bounds of the model.                                                    *)
(***************************************************************************)
MaxBatchSize == 3     \* batch sizes 1..MaxBatchSize
MaxCalls     == 8     \* calls made on one Batch (7 adds and a close fit)
MaxLookups   == 3     \* Address.fromdict calls made in one process
MaxRuns      == 2     \* import sessions run in one process
MaxAttrs     == 2     \* attributes present in a decoded email record

(***************************************************************************)
(* Python values.  None is the empty set and a present value a singleton,  *)
(* so that optional values of any type can be compared.                    *)
(***************************************************************************)
None      == {}
Some(v)   == {v}
The(o)    == CHOOSE v \in o : TRUE

\* An intermediate result used more than once is written
\*     The({ body(x) : x \in {value} })
\* which evaluates value once and names it x in body.

(***************************************************************************)
(* src/import.py: class Batch                                              *)
(***************************************************************************)

\* The session handed to Batch.__init__: nothing staged, nothing stored.
NewSession ==
    [closed |-> FALSE, add_alls |-> 0, commits |-> 0, stored |-> << >>]

\* session.add_all(items) followed by session.commit(): the items are
\* stored as one unit.  The sink is taken not to fail, and a SQLAlchemy
\* session takes work again after close().
SessionSave(s, items) ==
    [s EXCEPT !.add_alls = @ + 1, !.commits = @ + 1, !.stored = @ \o items]

\* session.close()
SessionClose(s) == [s EXCEPT !.closed = TRUE]

\* line 28: the test that triggers _apply inside add
ReachedThreshold_gt(b, n) == Len(b) > n
ReachedThreshold(b, n) == Len(b) >= n

\* line 40: whether _apply saves the batch
ShouldSave_always(d) == TRUE
ShouldSave(d) == ~d

\* line 47: the buffer _apply leaves behind
BatchAfterApply_keep(b) == b
BatchAfterApply(b) == << >>

\* Batch._apply, as the state after it given the buffer b it runs on.
\* Returns the new [batch, total, session, log].
Apply(b, t, s, l) ==
    LET save   == ShouldSave(dry)
        action == IF save THEN "Saved" ELSE "Skipped"
        s2     == IF save THEN SessionSave(s, b) ELSE s
        t2     == t + 1
    IN  [batch   |-> BatchAfterApply(b),
         total   |-> t2,
         session |-> s2,
         log     |-> Append(l, [action |-> action, total |-> t2, items |-> Len(b)])]

\* Batch.__init__ (state after construction), for one configuration.
BatchInit ==
    /\ batch_size \in 1..MaxBatchSize
    /\ dry \in BOOLEAN
    /\ batch = << >>
    /\ total = 0
    /\ session = NewSession
    /\ log = << >>
    /\ ops = << >>
    /\ added = << >>
    /\ flushAt = << >>

\* Batch.add(item).  The item is a fresh entity: Email.fromfile builds a new
\* object for every archive entry, so it is named by its ordinal.
Add ==
    /\ Len(ops) < MaxCalls
    /\ LET item == Len(added) + 1
           b1   == Append(batch, item)
           r    == Apply(b1, total, session, log)
       IN  /\ ops' = Append(ops, "add")
           /\ added' = Append(added, item)
           /\ IF ReachedThreshold(b1, batch_size)
              THEN /\ batch' = r.batch
                   /\ total' = r.total
                   /\ session' = r.session
                   /\ log' = r.log
                   /\ flushAt' = Append(flushAt, Len(ops) + 1)
              ELSE /\ batch' = b1
                   /\ UNCHANGED <<total, session, log, flushAt>>
    /\ UNCHANGED <<batch_size, dry>>
    /\ UNCHANGED <<addrVars, emailVars>>

\* Batch.close()
Close ==
    /\ Len(ops) < MaxCalls
    /\ LET r == Apply(batch, total, session, log)
       IN  /\ ops' = Append(ops, "close")
           /\ IF Len(batch) > 0
              THEN /\ batch' = r.batch
                   /\ total' = r.total
                   /\ session' = SessionClose(r.session)
                   /\ log' = r.log
                   /\ flushAt' = Append(flushAt, Len(ops) + 1)
              ELSE /\ session' = SessionClose(session)
                   /\ UNCHANGED <<batch, total, log, flushAt>>
    /\ UNCHANGED <<batch_size, dry, added>>
    /\ UNCHANGED <<addrVars, emailVars>>

(***************************************************************************)
(* src/lib/message.py: Python helpers                                      *)
(***************************************************************************)

\* Characters of the raw display names.
SQ == "'"
DQ == "\""
SP == " "

\* d.get(k, dflt) on a decoded node d (a function from keys to values);
\* a present value v is returned as Some(v).
Get(d, k, dflt) == IF k \in DOMAIN d THEN Some(d[k]) ELSE dflt

\* str.lstrip(chars), str.rstrip(chars), str.strip(chars) on a sequence of
\* characters.
RECURSIVE LStrip(_, _)
LStrip(s, cs) ==
    IF s # << >> /\ Head(s) \in cs THEN LStrip(Tail(s), cs) ELSE s

RECURSIVE RStrip(_, _)
RStrip(s, cs) ==
    IF s # << >> /\ s[Len(s)] \in cs
    THEN RStrip(SubSeq(s, 1, Len(s) - 1), cs)
    ELSE s

Strip(s, cs) == RStrip(LStrip(s, cs), cs)

\* str.replace(c, '')
Remove(s, c) == SelectSeq(s, LAMBDA x : x # c)

\* x or None, for a string x
OrNone(s) == IF s = << >> THEN None ELSE Some(s)

(***************************************************************************)
(* src/lib/message.py: class Address                                       *)
(***************************************************************************)

\* The attribute names of an emailAddress node.
AddressName  == "@OPFContactEmailAddressName"
AddressType  == "@OPFContactEmailAddressType"
AddressEmail == "@OPFContactEmailAddressAddress"

\* The integer 0 that is the default of the type attribute (line 81).  The
\* attribute itself, when present, is a string: "0" and 0 are different
\* values and make different keys.
PyInt0 == "int(0)"

\* The dict that is the default value of the cache parameter (line 74); it
\* is built once, when the def statement runs.
EmptyDict == [k \in {} |-> None]

\* lines 76-79: the display name with its quotes removed
NormName(email_address) ==
    LET name == Get(email_address, AddressName, None)
    IN  IF name # None
        THEN OrNone(Strip(Remove(Strip(The(name), {SQ, DQ}), DQ), {SP}))
        ELSE None

\* lines 80-84: the candidate object, given the cache it is built against
\* and the number of objects built before it
Candidate(email_address, c, n) ==
    LET type  == Get(email_address, AddressType, Some(PyInt0))
    IN  [obj   |-> n + 1,
         id    |-> Cardinality(DOMAIN c),
         type  |-> The(type),
         name  |-> NormName(email_address),
         email |-> Get(email_address, AddressEmail, None)]

\* Address.key (lines 96-98)
AddressKey(a) == <<a.email, a.name, a.type>>

\* lines 87-93: the cache after a lookup of key that found or stored data
CacheStore_overwrite(c, key, data) ==
    [k \in DOMAIN c \cup {key} |-> IF k = key THEN data ELSE c[k]]
CacheStore(c, key, data) ==
    IF key \in DOMAIN c
    THEN c
    ELSE [k \in DOMAIN c \cup {key} |-> IF k = key THEN data ELSE c[k]]

\* Address.fromdict(email_address, cache=c) with n objects built so far:
\* the instance returned and the cache left behind.
AddressFromDict(email_address, c, n) ==
    The({ The({ [addr |-> c2[AddressKey(data)], cache |-> c2, key |-> AddressKey(data)] :
                c2 \in {CacheStore(c, AddressKey(data), data)} }) :
          data \in {Candidate(email_address, c, n)} })

(***************************************************************************)
(* Decoded XML (xmltodict): an element is a dict, here a function from its *)
(* keys to values; repeated children are a Python list.                    *)
(***************************************************************************)

\* A Python list, as distinct from a dict: its elements under the key list.
PyList(seq) == [list |-> seq]

\* hasattr(values, 'items') (line 239)
IsDict(v) == "list" \notin DOMAIN v

\* An element that carries only an XML attribute: no #text, no children.
BareNode == [k \in {"@xml:space"} |-> "preserve"]

\* An element with text t.
TextNode(t) == [k \in {"#text"} |-> t]

\* An element with one kind of child, child being a dict or a list.
ParentNode(tag, child) == [k \in {tag} |-> child]

\* Results of an evaluation that may raise.
Ok(v)      == [ok |-> TRUE, val |-> v]
Raise(err) == [ok |-> FALSE, err |-> err]

KeyError(k)   == [kind |-> "KeyError", key |-> k]
ValueError(t) == [kind |-> "ValueError", text |-> t]
IndexError    == [kind |-> "IndexError"]

\* The TypeError of a call that lacks required arguments, raised while
\* handling err (its __context__).
TypeError(missing, err) ==
    [kind |-> "TypeError", missing |-> missing, context |-> err]

(***************************************************************************)
(* src/lib/message.py: class Attachment                                    *)
(***************************************************************************)
AttachmentExt  == "@OPFAttachmentContentExtension"
AttachmentSize == "@OPFAttachmentContentFileSize"
AttachmentType == "@OPFAttachmentContentType"
AttachmentName == "@OPFAttachmentName"
AttachmentURL  == "@OPFAttachmentURL"

\* size.replace(',', '.') on a sequence of characters
CommaToDot(s) == [i \in 1..Len(s) |-> IF s[i] = "," THEN "." ELSE s[i]]

\* Attachment.fromdict (lines 124-134).  The size is kept as the decimal
\* literal that float() reads.
AttachmentFromDict(attachment) ==
    LET size == Get(attachment, AttachmentSize, None)
    IN  [ext  |-> Get(attachment, AttachmentExt, None),
         size |-> IF size # None THEN Some(CommaToDot(The(size))) ELSE None,
         type |-> Get(attachment, AttachmentType, None),
         name |-> Get(attachment, AttachmentName, None),
         path |-> Get(attachment, AttachmentURL, None)]

\* Attachment.key (lines 120-122)
AttachmentKey(a) == a.path

(***************************************************************************)
(* src/lib/message.py: class ParseError                                    *)
(***************************************************************************)

\* ParseError(key=, attribute=, email=, xml=): the four fields are required
\* (attrs attributes without defaults, lines 141-151).
ParseError(key, attribute, email, xml) ==
    [kind |-> "ParseError", key |-> key, attribute |-> attribute,
     email |-> email, xml |-> xml]

(***************************************************************************)
(* src/lib/message.py: class Email, the extraction helpers                 *)
(***************************************************************************)

\* item.key() for an Address or an Attachment; None when there is no key.
KeyOf(item) ==
    IF "obj" \in DOMAIN item THEN Some(AddressKey(item)) ELSE AttachmentKey(item)

\* visited[key] = item (line 191) on the dict visited, kept as the sequence
\* of its (key, item) pairs in insertion order.
DictSet(visited, key, item) ==
    IF \E i \in 1..Len(visited) : visited[i].key = key
    THEN [i \in 1..Len(visited) |->
            IF visited[i].key = key THEN [key |-> key, item |-> item]
            ELSE visited[i]]
    ELSE Append(visited, [key |-> key, item |-> item])

RECURSIVE Visit(_, _)
Visit(visited, items) ==
    IF items = << >> THEN visited
    ELSE The({ Visit(v, Tail(items)) :
               v \in { IF KeyOf(Head(items)) # None
                       THEN DictSet(visited, The(KeyOf(Head(items))), Head(items))
                       ELSE visited } })

\* Email.unique (lines 183-192), for items that are not None
Unique(items) ==
    The({ [i \in 1..Len(visited) |-> visited[i].item] :
          visited \in {Visit(<< >>, items)} })

RECURSIVE Chain(_)
Chain(lists) ==
    IF lists = << >> THEN << >> ELSE Head(lists) \o Chain(Tail(lists))

\* Email._contacts (lines 194-198): lists are the lists that are not None
Contacts(lists) == Unique(Chain(lists))

\* Email._text (lines 200-204)
Text(m, attrib) ==
    LET val == Get(m, attrib, None)
    IN  IF val = None THEN None ELSE Get(The(val), "#text", None)

\* html.unescape on a sequence of tokens
Unescape(s) ==
    [i \in 1..Len(s) |->
        CASE s[i] = "&amp;" -> "&"
          [] s[i] = "&lt;"  -> "<"
          [] s[i] = "&gt;"  -> ">"
          [] OTHER          -> s[i]]

\* Email._html (lines 206-210)
Html(m, attrib) ==
    LET val == Text(m, attrib)
    IN  IF val = None THEN None ELSE Some(Unescape(The(val)))

\* float(val) for the flag texts of the model
Float(t) ==
    CASE t = "0"  -> Ok(0)
      [] t = "1"  -> Ok(1)
      [] t = "-1" -> Ok(-1)
      [] OTHER    -> Raise(ValueError(t))

\* Email._bool (lines 212-216)
Bool(m, attrib) ==
    LET val == Text(m, attrib)
    IN  IF val = None THEN Ok(None)
        ELSE IF Float(The(val)).ok
             THEN Ok(Some(Float(The(val)).val > 0))
             ELSE Float(The(val))

\* int(isoparse(val).astimezone(pytz.utc).timestamp()) for the timestamp
\* texts of the model
IsoTimestamp(t) ==
    CASE t = "2020-01-15T10:00:00Z"      -> Ok(1579082400)
      [] t = "2020-01-15T11:00:00+01:00" -> Ok(1579082400)
      [] OTHER                           -> Raise(ValueError(t))

\* Email._timestamp (lines 218-227)
Timestamp(m, attrib) ==
    LET val == Text(m, attrib)
    IN  IF val = None THEN Ok(None)
        ELSE IF IsoTimestamp(The(val)).ok
             THEN Ok(Some(IsoTimestamp(The(val)).val))
             ELSE IsoTimestamp(The(val))

\* line 236: the test for an absent parent element
ItemAbsent_never(item) == FALSE
ItemAbsent(item) == item = None

\* cls.fromdict(value) for value in values, in order (line 241); Address
\* instances go through the cache c, with n objects built so far.
RECURSIVE FromDicts(_, _, _, _)
FromDicts(values, cls, c, n) ==
    IF values = << >> THEN [items |-> << >>, cache |-> c, nalloc |-> n]
    ELSE IF cls = "Address"
         THEN The({ The({ [rest EXCEPT !.items = <<r.addr>> \o @] :
                          rest \in {FromDicts(Tail(values), cls, r.cache, n + 1)} }) :
                    r \in {AddressFromDict(Head(values), c, n)} })
         ELSE The({ [rest EXCEPT !.items = <<AttachmentFromDict(Head(values))>> \o @] :
                    rest \in {FromDicts(Tail(values), cls, c, n)} })

\* Email._list (lines 229-243).  item is None or Some(parent element).
List(item, attribute, cls, c, n) ==
    IF ItemAbsent(item)
    THEN [res |-> Ok(<< >>), cache |-> c, nalloc |-> n]
    ELSE IF item = None
    THEN \* None[attribute]: not a KeyError, so not caught on line 242
         [res |-> Raise(TypeError({"__getitem__"}, None)), cache |-> c, nalloc |-> n]
    ELSE IF attribute \notin DOMAIN The(item)
    THEN [res   |-> Raise(ParseError(KeyError(attribute), item, None, None)),
          cache |-> c, nalloc |-> n]
    ELSE LET values == The(item)[attribute]
             seq    == IF IsDict(values) THEN <<values>> ELSE values.list
         IN  The({ [res |-> Ok(Unique(r.items)), cache |-> r.cache, nalloc |-> r.nalloc] :
                   r \in {FromDicts(seq, cls, c, n)} })

\* Email._addresses (lines 245-248)
Addresses(m, attrib, c, n) ==
    List(Get(m, attrib, None), "emailAddress", "Address", c, n)

\* Email._attachments (lines 250-254)
Attachments(m, attrib) ==
    List(Get(m, attrib, None), "messageAttachment", "Attachment", EmptyDict, 0).res

\* Email._address (lines 256-261)
OneAddress(m, attrib, c, n) ==
    LET value == Get(m, attrib, None)
    IN  IF value = None
        THEN [res |-> Ok(None), cache |-> c, nalloc |-> n]
        ELSE IF "emailAddress" \notin DOMAIN The(value)
        THEN [res |-> Raise(KeyError("emailAddress")), cache |-> c, nalloc |-> n]
        ELSE The({ [res |-> Ok(Some(r.addr)), cache |-> r.cache, nalloc |-> n + 1] :
                   r \in {AddressFromDict(The(value)["emailAddress"], c, n)} })

(***************************************************************************)
(* src/lib/message.py: Email.fromdict                                      *)
(***************************************************************************)

\* path.split('/') on a path given as a sequence of tokens, "/" being the
\* separator; the other tokens are concatenated into the segments.
RECURSIVE SplitFrom(_, _, _)
SplitFrom(tokens, cur, parts) ==
    IF tokens = << >> THEN Append(parts, cur)
    ELSE IF Head(tokens) = "/"
         THEN SplitFrom(Tail(tokens), "", Append(parts, cur))
         ELSE SplitFrom(Tail(tokens), cur \o Head(tokens), parts)

Split(p) == SplitFrom(p, "", << >>)

\* '/'.join(segments)
RECURSIVE Join(_)
Join(segments) ==
    IF segments = << >> THEN ""
    ELSE IF Len(segments) = 1 THEN Head(segments)
    ELSE Head(segments) \o "/" \o Join(Tail(segments))

\* parts[a:b] for a >= 0 and b < 0
PySlice(parts, a, b) == SubSeq(parts, a + 1, Len(parts) + b)

\* line 307: parts[1]
Account(parts) == IF Len(parts) >= 2 THEN Ok(parts[2]) ELSE Raise(IndexError)

\* line 308: '/'.join(parts[3:-1])
Label_from2(parts) == Join(PySlice(parts, 2, -1))
Label(parts) == Join(PySlice(parts, 3, -1))

\* x or False, for an optional boolean x (lines 311-316)
OrFalse(x) == IF x = None \/ x = Some(FALSE) THEN Some(FALSE) ELSE x

\* The attribute names of an email element.
FromAttr       == "OPFMessageCopyFromAddresses"
SenderAttr     == "OPFMessageCopySenderAddress"
ToAttr         == "OPFMessageCopyToAddresses"
CCAttr         == "OPFMessageCopyCCAddresses"
MeetingAttr    == "OPFMessageIsOutgoingMeetingResponse"
OutgoingAttr   == "OPFMessageIsOutgoing"
CalendarAttr   == "OPFMessageIsCalendarMessage"
HasHTMLAttr    == "OPFMessageGetHasHTML"
HasRichAttr    == "OPFMessageGetHasRichText"
PreviewAttr    == "OPFMessageCopyPreview"
ReceivedAttr   == "OPFMessageCopyReceivedTime"
SentAttr       == "OPFMessageCopySentTime"
SubjectAttr    == "OPFMessageCopySubject"
DisplayToAttr  == "OPFMessageCopyDisplayTo"
AttachmentAttr == "OPFMessageCopyAttachmentList"
BodyAttr       == "OPFMessageCopyBody"

\* The first error among results evaluated in order, or None.
RECURSIVE FirstError(_)
FirstError(results) ==
    IF results = << >> THEN None
    ELSE IF ~Head(results).ok THEN Some(Head(results).err)
    ELSE FirstError(Tail(results))

\* lines 305-329: the keyword arguments are evaluated in the order written
\* and the Email is built from them.
BuildEmail(p, m, parts, fromA, toA, ccA, contacts) ==
    LET account  == Account(parts)
        meeting  == Bool(m, MeetingAttr)
        outgoing == Bool(m, OutgoingAttr)
        calendar == Bool(m, CalendarAttr)
        hasHTML  == Bool(m, HasHTMLAttr)
        hasRich  == Bool(m, HasRichAttr)
        received == Timestamp(m, ReceivedAttr)
        sent     == Timestamp(m, SentAttr)
        attach   == Attachments(m, AttachmentAttr)
        error    == FirstError(<<account, meeting, outgoing, calendar, hasHTML,
                                 hasRich, received, sent, attach>>)
    IN  IF error # None THEN Raise(The(error))
        ELSE Ok([kind                      |-> "Email",
                 path                      |-> p,
                 account                   |-> account.val,
                 label                     |-> Label(parts),
                 isOutgoingMeetingResponse |-> meeting.val,
                 isOutgoing                |-> OrFalse(outgoing.val),
                 isCalendarMessage         |-> OrFalse(calendar.val),
                 hasHTML                   |-> OrFalse(hasHTML.val),
                 hasRichText               |-> OrFalse(hasRich.val),
                 toAddresses               |-> toA,
                 preview                   |-> Text(m, PreviewAttr),
                 receivedTime              |-> received.val,
                 fromAddresses             |-> fromA,
                 sentTime                  |-> sent.val,
                 subject                   |-> Text(m, SubjectAttr),
                 ccAddresses               |-> ccA,
                 contacts                  |-> contacts,
                 displayTo                 |-> Text(m, DisplayToAttr),
                 attachments               |-> attach.val,
                 body                      |-> Html(m, BodyAttr)])

\* lines 331-335: the two except clauses of fromdict, applied to an error
\* raised inside the try block; any other error passes through.
Except(err, m) ==
    IF err.kind = "ParseError" THEN [err EXCEPT !.email = Some(m)]
    ELSE IF err.kind = "KeyError" THEN TypeError({"attribute", "xml"}, Some(err))
    ELSE err

\* lines 299-301: the sender joins the from addresses
WithSender(fromAddresses, senderAddress) ==
    IF senderAddress # None
    THEN Unique(Append(fromAddresses, The(senderAddress)))
    ELSE fromAddresses

\* lines 292-304, the try block up to contacts, then BuildEmail.  Each
\* step runs on the cache the step before it left; the first error ends it.
TryBlock(p, m, c, n) ==
    The({ IF ~rFrom.res.ok THEN rFrom ELSE
      The({ IF ~rSend.res.ok THEN rSend ELSE
        The({ IF ~rTo.res.ok THEN rTo ELSE
          The({ IF ~rCC.res.ok THEN rCC ELSE
            The({ [res   |-> BuildEmail(p, m, Split(p), fromA, rTo.res.val, rCC.res.val,
                                        Contacts(<<fromA, rTo.res.val, rCC.res.val>>)),
                   cache |-> rCC.cache, nalloc |-> rCC.nalloc] :
                  fromA \in {WithSender(rFrom.res.val, rSend.res.val)} }) :
            rCC \in {Addresses(m, CCAttr, rTo.cache, rTo.nalloc)} }) :
          rTo \in {Addresses(m, ToAttr, rSend.cache, rSend.nalloc)} }) :
        rSend \in {OneAddress(m, SenderAttr, rFrom.cache, rFrom.nalloc)} }) :
      rFrom \in {Addresses(m, FromAttr, c, n)} })

\* Email.fromdict(path, msg) (lines 288-335): what the call produces, an
\* Email or the error that leaves it, and the cache it leaves behind.
FromDict(p, m, c, n) ==
    The({ [out   |-> IF r.res.ok THEN r.res.val ELSE Except(r.res.err, m),
           cache |-> r.cache, nalloc |-> r.nalloc] :
          r \in {TryBlock(p, m, c, n)} })

(***************************************************************************)
(* Inputs                                                                  *)
(***************************************************************************)

\* The empty dict, as a decoded element without keys.
NoKeys == [k \in {} |-> None]

\* d with key k set to v
With(d, k, v) == [x \in DOMAIN d \cup {k} |-> IF x = k THEN v ELSE d[x]]

\* Raw display names: quoted, unquoted, with inner quotes, blank.
RawNames ==
    { <<"A">>, <<DQ, "A", DQ>>, <<SQ, "A", SQ>>, <<SQ, SP, "A", SP, SQ>>,
      <<DQ, DQ>>, <<SQ, SP, DQ>>,
      <<"A", "B">>, <<"A", DQ, "B">> }

\* emailAddress nodes: each attribute present or not.
AddressDicts ==
    { LET d1 == IF nm = None THEN NoKeys ELSE With(NoKeys, AddressName, The(nm))
          d2 == IF ty = None THEN d1 ELSE With(d1, AddressType, The(ty))
      IN  IF em = None THEN d2 ELSE With(d2, AddressEmail, The(em)) :
      nm \in {None} \cup {Some(x) : x \in RawNames},
      ty \in {None, Some("0")},
      em \in {None, Some("a@example.org")} }

\* The emailAddress and messageAttachment nodes of the email records.
AddrA1 == With(With(NoKeys, AddressName, <<DQ, "A", DQ>>), AddressEmail, "a@example.org")
AddrA2 == With(With(NoKeys, AddressName, <<"A">>), AddressEmail, "a@example.org")
AddrB  == With(With(NoKeys, AddressType, "1"), AddressEmail, "b@example.org")
Attach1 == With(With(NoKeys, AttachmentURL, "att/1.bin"), AttachmentSize, <<"1", ",", "5">>)
Attach2 == With(NoKeys, AttachmentName, "unnamed")

\* The nodes an attribute of an email record may hold.
NodesOf(attrib) ==
    CASE attrib = FromAttr ->
            { BareNode, ParentNode("emailAddress", AddrA1),
              ParentNode("emailAddress", PyList(<<AddrA1, AddrA2>>)),
              ParentNode("emailAddress", PyList(<<AddrA1, AddrB>>)) }
      [] attrib \in {ToAttr, CCAttr} ->
            { BareNode, ParentNode("emailAddress", AddrB),
              ParentNode("emailAddress", PyList(<<AddrA2, AddrB>>)) }
      [] attrib = SenderAttr ->
            { BareNode, ParentNode("emailAddress", AddrA2),
              ParentNode("emailAddress", AddrB) }
      [] attrib = AttachmentAttr ->
            { BareNode, ParentNode("messageAttachment", Attach1),
              ParentNode("messageAttachment", PyList(<<Attach1, Attach2>>)) }
      [] attrib \in {MeetingAttr, OutgoingAttr, CalendarAttr, HasHTMLAttr, HasRichAttr} ->
            { BareNode, TextNode("0"), TextNode("1"), TextNode("yes") }
      [] attrib \in {ReceivedAttr, SentAttr} ->
            { TextNode("2020-01-15T10:00:00Z"), TextNode("yesterday") }
      [] attrib \in {PreviewAttr, SubjectAttr, DisplayToAttr} ->
            { BareNode, TextNode("hello") }
      [] attrib = BodyAttr ->
            { BareNode, TextNode(<<"a", "&amp;", "b">>) }

\* The attributes of an email element, in a fixed order.
Attribs ==
    << FromAttr, SenderAttr, ToAttr, CCAttr, MeetingAttr, OutgoingAttr,
       CalendarAttr, HasHTMLAttr, HasRichAttr, PreviewAttr, ReceivedAttr,
       SentAttr, SubjectAttr, DisplayToAttr, AttachmentAttr, BodyAttr >>

\* The records over the attributes Attribs[i..] that hold at most k of them.
RECURSIVE RecordsFrom(_, _)
RecordsFrom(i, k) ==
    IF i > Len(Attribs) \/ k = 0 THEN {NoKeys}
    ELSE RecordsFrom(i + 1, k) \cup
         { With(r, Attribs[i], node) :
             r \in RecordsFrom(i + 1, k - 1), node \in NodesOf(Attribs[i]) }

\* The decoded email records with at most MaxAttrs attributes.
Records == RecordsFrom(1, MaxAttrs)

\* Archive entry names.
ClaimPath == <<"a", "/", "Account1", "/", "b", "/", "Inbox", "/", "Sub", "/", "msg1">>
Paths ==
    { ClaimPath,
      <<"message_1.xml">>,
      <<"Accounts", "/", "me", "/", "message_1.xml">> }

(***************************************************************************)
(* The three specifications                                                *)
(***************************************************************************)

\* Address.fromdict has not been called: the cache is the dict its def
\* statement built.
AddrInit ==
    /\ cache = EmptyDict
    /\ nalloc = 0
    /\ run = 1
    /\ startAlloc = 0
    /\ returned = EmptyDict
    /\ lastCall = None

EmailIdle ==
    /\ path = << >>
    /\ msg = NoKeys
    /\ outcome = [kind |-> "pending"]

BatchIdle ==
    /\ batch_size = 1
    /\ dry = FALSE
    /\ batch = << >>
    /\ total = 0
    /\ session = NewSession
    /\ log = << >>
    /\ ops = << >>
    /\ added = << >>
    /\ flushAt = << >>

\* ---- Spec: one Batch, any sequence of add and close calls
Init == BatchInit /\ AddrInit /\ EmailIdle
Next == Add \/ Close
Spec == Init /\ [][Next]_vars

\* ---- SpecAddress: Address.fromdict called on emailAddress nodes, the
\* process running one import session after another

\* One call Address.fromdict(email_address), cache left to its default.
Lookup ==
    /\ nalloc < MaxLookups
    /\ \E email_address \in AddressDicts :
        \E r \in {AddressFromDict(email_address, cache, nalloc)} :
            /\ cache' = r.cache
            /\ nalloc' = nalloc + 1
            /\ returned' = With(returned, r.key,
                                (IF r.key \in DOMAIN returned
                                 THEN returned[r.key] ELSE {}) \cup {r.addr.obj})
            /\ lastCall' = Some([key  |-> r.key, addr |-> r.addr,
                                 hit  |-> r.key \in DOMAIN returned])
    /\ UNCHANGED <<run, startAlloc>>
    /\ UNCHANGED <<batchVars, emailVars>>

\* A further import session begins in the same process (main called again,
\* src/import.py lines 87-94): no statement of it touches the cache.
BeginSession ==
    /\ run < MaxRuns
    /\ run' = run + 1
    /\ startAlloc' = nalloc
    /\ returned' = EmptyDict
    /\ lastCall' = None
    /\ UNCHANGED <<cache, nalloc>>
    /\ UNCHANGED <<batchVars, emailVars>>

InitAddress == BatchIdle /\ AddrInit /\ EmailIdle
NextAddress == Lookup \/ BeginSession
SpecAddress == InitAddress /\ [][NextAddress]_vars

\* ---- SpecEmail: Email.fromdict(path, msg) on one record
InitEmail ==
    /\ BatchIdle
    /\ AddrInit
    /\ path \in Paths
    /\ msg \in Records
    /\ outcome = [kind |-> "pending"]

CallFromDict ==
    /\ outcome.kind = "pending"
    /\ \E r \in {FromDict(path, msg, cache, nalloc)} :
           /\ outcome' = r.out
           /\ cache' = r.cache
           /\ nalloc' = r.nalloc
    /\ UNCHANGED <<path, msg, run, startAlloc, returned, lastCall>>
    /\ UNCHANGED batchVars

NextEmail == CallFromDict
SpecEmail == InitEmail /\ [][NextEmail]_vars

(***************************************************************************)
(* Properties of Batch (checked under Spec)                                *)
(***************************************************************************)

\* The calls so far are adds only.
AddsOnly == \A i \in 1..Len(ops) : ops[i] = "add"

\* The calls so far are adds followed by exactly one close.
AddsThenClose ==
    /\ Len(ops) >= 1
    /\ ops[Len(ops)] = "close"
    /\ \A i \in 1..(Len(ops) - 1) : ops[i] = "add"

\* The items of the buffered, stored sequence s.
Range(s) == {s[i] : i \in 1..Len(s)}

\* The number of add calls made before the first close.
AddsBeforeClose ==
    Cardinality({i \in 1..Len(ops) :
                    ops[i] = "add" /\ \A j \in 1..i : ops[j] # "close"})

\* C1: with batch size N, k adds run floor(k/N) flushes of N items each, the
\* i-th during the (i*N)-th add; a close after them runs one more flush, of
\* k mod N items, exactly when k mod N > 0.
C1_BatchThreshold ==
    LET N == batch_size
        k == Len(added)
        f == k \div N
        r == k % N
    IN  /\ Len(flushAt) = Len(log)
        /\ (AddsOnly \/ AddsThenClose) =>
              /\ Len(log) >= f
              /\ \A i \in 1..f : /\ log[i].items = N
                                 /\ log[i].total = i
                                 /\ flushAt[i] = i * N
        /\ AddsOnly => Len(log) = f
        /\ AddsThenClose =>
              /\ Len(log) = f + (IF r > 0 THEN 1 ELSE 0)
              /\ r > 0 => /\ log[f + 1].items = r
                          /\ flushAt[f + 1] = k + 1

\* C1 witness: batch size 3, 7 adds and a close: flushes of 3, 3 and 1.
C1_Witness ==
    /\ batch_size = 3
    /\ Len(added) = 7
    /\ AddsThenClose
    /\ [i \in 1..Len(log) |-> log[i].items] = <<3, 3, 1>>
    /\ flushAt = <<3, 6, 8>>

\* C2: in a run that is not dry, what the sink has stored is a prefix of
\* what was passed to add, without repetition; fewer than N added items are
\* not stored yet; and when close returns everything added is stored.
C2_CommittedPrefix ==
    ~dry =>
        /\ Len(session.stored) <= Len(added)
        /\ session.stored = SubSeq(added, 1, Len(session.stored))
        /\ \A i, j \in 1..Len(session.stored) :
              session.stored[i] = session.stored[j] => i = j
        /\ Len(added) - Len(session.stored) < batch_size
        /\ (ops # << >> /\ ops[Len(ops)] = "close") => session.stored = added

\* C2 witness: three commits, the last by close, have stored 7 items.
C2_Witness ==
    /\ ~dry
    /\ batch_size = 3
    /\ AddsThenClose
    /\ session.commits = 3
    /\ Len(session.stored) = 7

\* C3: once close has been called, an entity passed to add is neither in
\* the buffer nor in the sink: every later add is refused.
C3_AddAfterCloseRefused ==
    session.closed =>
        \A item \in Range(batch) \cup Range(session.stored) :
            item <= AddsBeforeClose

\* C6: in a dry run the sink receives nothing (no add_all, no commit) and
\* every flush, the one run by close included, is reported as skipped.
C6_DryRunIsolation ==
    dry =>
        /\ session.add_alls = 0
        /\ session.commits = 0
        /\ session.stored = << >>
        /\ \A i \in 1..Len(log) : log[i].action = "Skipped"

\* C6 witness: a dry run in which adds and the close have flushed.
C6_Witness ==
    /\ dry
    /\ AddsThenClose
    /\ Len(log) >= 2
    /\ flushAt[Len(flushAt)] = Len(ops)

(***************************************************************************)
(* Properties of Address.fromdict (checked under SpecAddress)              *)
(***************************************************************************)

\* C4: a further import session starts with an empty cache, and no call
\* made in it returns an instance built in an earlier session.
C4_FreshSessionCacheEmpty ==
    /\ (run > 1 /\ DOMAIN returned = {}) => DOMAIN cache = {}
    /\ (run > 1 /\ lastCall # None) => The(lastCall).addr.obj > startAlloc

\* Within a session: every key looked up has been answered with one and the
\* same instance, which is the one the cache holds under that key.
C5_OneInstancePerKey ==
    \A k \in DOMAIN returned :
        /\ Cardinality(returned[k]) = 1
        /\ k \in DOMAIN cache
        /\ AddressKey(cache[k]) = k
        /\ returned[k] = {cache[k].obj}

\* An entry of the cache is never replaced and never removed.
C5_EntriesKept ==
    \A k \in DOMAIN cache : k \in DOMAIN cache' /\ cache'[k] = cache[k]

\* C5: within one import session calls with the same natural key return
\* the identical instance; the cache holds exactly one instance per key
\* seen, and an entry once inserted is never replaced or removed.
C5_DedupWithinSession == []C5_OneInstancePerKey /\ [][C5_EntriesKept]_vars

\* C5 witness: a call has returned an instance built by an earlier call of
\* the same session.
C5_Witness ==
    /\ lastCall # None
    /\ The(lastCall).hit
    /\ The(lastCall).addr.obj < nalloc
    /\ The(lastCall).addr.obj > startAlloc

(***************************************************************************)
(* Properties of Email.fromdict (checked under SpecEmail)                  *)
(***************************************************************************)
Done == outcome.kind # "pending"

\* The KeyError, if any, at the origin of the error that left the call.
MissingKey ==
    CASE outcome.kind = "ParseError" -> Some(outcome.key)
      [] outcome.kind = "KeyError"   -> Some(outcome)
      [] outcome.kind = "TypeError"  -> outcome.context
      [] OTHER                       -> None

\* C7: whenever a key is missing in the nested extraction, the error that
\* leaves Email.fromdict is a ParseError that names the key and carries the
\* enclosing record.
C7_MissingKeyIsParseError ==
    MissingKey # None =>
        /\ outcome.kind = "ParseError"
        /\ outcome.key = The(MissingKey)
        /\ outcome.email = Some(msg)

\* The flag and timestamp texts float() and isoparse() accept.
Parses(m, attrib, texts) ==
    (attrib \in DOMAIN m /\ "#text" \in DOMAIN m[attrib]) => m[attrib]["#text"] \in texts

\* Nothing that fromdict evaluates before the attachment list raises: the
\* address elements have their emailAddress child, the path has an account
\* segment, the flag and timestamp texts parse.
ExtractsUpToAttachments ==
    /\ \A a \in {FromAttr, SenderAttr, ToAttr, CCAttr} :
          a \in DOMAIN msg => "emailAddress" \in DOMAIN msg[a]
    /\ \E i \in 1..Len(path) : path[i] = "/"
    /\ \A a \in {MeetingAttr, OutgoingAttr, CalendarAttr, HasHTMLAttr, HasRichAttr} :
          Parses(msg, a, {"0", "1", "-1"})
    /\ \A a \in {ReceivedAttr, SentAttr} :
          Parses(msg, a, {"2020-01-15T10:00:00Z", "2020-01-15T11:00:00+01:00"})

\* C8 as claimed: a record without the attachment-list attribute raises a
\* ParseError that names the attachment attribute and carries the record.
C8_MissingListRaises ==
    (Done /\ AttachmentAttr \notin DOMAIN msg) =>
        /\ outcome.kind = "ParseError"
        /\ outcome.key \in {KeyError(AttachmentAttr), KeyError("messageAttachment")}
        /\ outcome.email # None

\* C8 as the code has it: a record without the attachment-list attribute
\* maps to an Email with no attachments and never raises a ParseError about
\* attachments; the ParseError, naming messageAttachment and carrying the
\* element and the record, is raised when the attachment-list element is
\* there and lacks its messageAttachment child.
C8_MissingChildRaises ==
    Done =>
        /\ AttachmentAttr \notin DOMAIN msg =>
              /\ ExtractsUpToAttachments =>
                    outcome.kind = "Email" /\ outcome.attachments = << >>
              /\ ~(/\ outcome.kind = "ParseError"
                   /\ outcome.key \in {KeyError(AttachmentAttr),
                                       KeyError("messageAttachment")})
        /\ (/\ AttachmentAttr \in DOMAIN msg
            /\ "messageAttachment" \notin DOMAIN msg[AttachmentAttr]) =>
              /\ outcome.kind # "Email"
              /\ ExtractsUpToAttachments =>
                    outcome = ParseError(KeyError("messageAttachment"),
                                         Some(msg[AttachmentAttr]), Some(msg), None)

\* C8 witness: the attachment-list element without its child has raised the
\* ParseError.
C8_Witness ==
    /\ AttachmentAttr \in DOMAIN msg
    /\ "messageAttachment" \notin DOMAIN msg[AttachmentAttr]
    /\ outcome.kind = "ParseError"
    /\ outcome.key = KeyError("messageAttachment")
    /\ outcome.email = Some(msg)

\* C9 as claimed: the path a/Account1/b/Inbox/Sub/msg1 gives account
\* Account1 and label b/Inbox/Sub.
C9_LabelFromThirdSegment ==
    (path = ClaimPath /\ outcome.kind = "Email") =>
        outcome.account = "Account1" /\ outcome.label = "b/Inbox/Sub"

\* C9 as the code has it: the path a/Account1/b/Inbox/Sub/msg1 gives
\* account Account1 and label Inbox/Sub (the fourth segment to the one
\* before the last).
C9_LabelFromFourthSegment ==
    (path = ClaimPath /\ outcome.kind = "Email") =>
        outcome.account = "Account1" /\ outcome.label = "Inbox/Sub"

\* C9 witness: an Email has been built from that path.
C9_Witness == path = ClaimPath /\ outcome.kind = "Email"

\* C10: each of the five flags of the Email is False, not None, when its
\* attribute is absent from the record.
C10_FlagsDefaultFalse ==
    outcome.kind = "Email" =>
        /\ MeetingAttr \notin DOMAIN msg =>
              outcome.isOutgoingMeetingResponse = Some(FALSE)
        /\ OutgoingAttr \notin DOMAIN msg => outcome.isOutgoing = Some(FALSE)
        /\ CalendarAttr \notin DOMAIN msg => outcome.isCalendarMessage = Some(FALSE)
        /\ HasHTMLAttr \notin DOMAIN msg => outcome.hasHTML = Some(FALSE)
        /\ HasRichAttr \notin DOMAIN msg => outcome.hasRichText = Some(FALSE)

====
